---------------------------- MODULE Spec2Model ----------------------------
(***************************************************************************)
(* A model of the ceRNA framework scripts:                                 *)
(*   obtain_interaction_data.py  download, load_and_filter, harmonize_ids, *)
(*                               main (fetch loop, per-source loop, merge) *)
(*   data_integration.py         global quantile filter                    *)
(*   preprocessing.py            filter_expression                         *)
(* Each script is a sequential program; each gets its own specification    *)
(* over its own variables, the other scripts' variables staying idle.      *)
(***************************************************************************)
EXTENDS Integers, Sequences, FiniteSets, TLC

VARIABLES
    \* ---- obtain_interaction_data.py, main step 1 and download_file
    fpc,              \* position of the fetch run
    fi,               \* index of the source the fetch loop is at
    disk,             \* dest path -> NoFile or the file's content
    resp,             \* the open HTTP response: status and chunks left to read
    requests,         \* per source: HTTP GETs issued so far
    fetchSteps,       \* per source: times the fetch loop body ran for it
    firstStatus,      \* per source: status of the first response received
    initiallyPresent, \* per source: whether dest existed before the first run
    runs,             \* runs of main started so far
    \* ---- obtain_interaction_data.py, load_and_filter step by step
    lpc,              \* position inside load_and_filter
    lcfg,             \* its score_col and threshold arguments
    ldf,              \* the local df
    lprev,            \* df as it was before the statement last executed
    \* ---- obtain_interaction_data.py, main steps 2 and 3
    mpc,              \* position of main after the downloads
    mi,               \* index of the source the second loop is at
    mapfile,          \* rows of ID_MAPPING_FILE: <<raw_id, official_symbol>>
    loaded,           \* what load_and_filter returned for the current source
    df,               \* the loop's df
    dfs,              \* the list dfs
    merged,           \* the merged table
    rowsRead,         \* rows parsed from the raw files so far
    \* ---- data_integration.py
    qpc,              \* position in the script
    merged_interactions, \* its input table: rows with a confidence_score
    global_threshold, \* the cutoff, in units of 1/QuantileDen; <<>> is NaN
    final_df,         \* the filtered table
    \* ---- preprocessing.py, filter_expression
    epc,              \* position inside filter_expression
    network_genes,    \* the set argument
    netIndex,         \* the Index pandas builds from the set: some order of it
    expr0,            \* the matrix passed in
    inNetwork,        \* expr after line 47
    expr              \* the local expr

fetchVars == <<fpc, fi, disk, resp, requests, fetchSteps, firstStatus,
               initiallyPresent, runs>>

loadVars == <<lpc, lcfg, ldf, lprev>>

mainVars == <<mpc, mi, mapfile, loaded, df, dfs, merged, rowsRead>>

quantVars == <<qpc, merged_interactions, global_threshold, final_df>>

exprVars == <<epc, network_genes, netIndex, expr0, inNetwork, expr>>

vars == <<fetchVars, loadVars, mainVars, quantVars, exprVars>>

notFetch == <<loadVars, mainVars, quantVars, exprVars>>

notLoad == <<fetchVars, mainVars, quantVars, exprVars>>

notMain == <<fetchVars, loadVars, quantVars, exprVars>>

notQuant == <<fetchVars, loadVars, mainVars, exprVars>>

notExpr == <<fetchVars, loadVars, mainVars, quantVars>>

(***************************************************************************)
(* Sequence helpers                                                        *)
(***************************************************************************)
Range(s) == {s[i] : i \in 1..Len(s)}

SeqsUpTo(S, n) == UNION {[1..k -> S] : k \in 0..n}

(***************************************************************************)
(* The source registry; a threshold is <<v>> in tenths, <<>> when None     *)
(***************************************************************************)
None == "None"

INTERACTION_SOURCES ==
    << [name |-> "starBase",   filename |-> "starBase_ceRNA_interactions.tsv.gz",
        score_col |-> "clip_score",         threshold |-> <<5>>],
       [name |-> "LncBase",    filename |-> "LncBase_interactions.tsv.gz",
        score_col |-> "lncbase_confidence", threshold |-> <<7>>],
       [name |-> "miRTarBase", filename |-> "miRTarBase_interactions.tsv.gz",
        score_col |-> "SupportType",        threshold |-> <<>>],
       [name |-> "miRcode",    filename |-> "miRcode_interactions.tsv",
        score_col |-> None,                 threshold |-> <<>>] >>

NumSources == Len(INTERACTION_SOURCES)

SourceIdx == 1..NumSources

(***************************************************************************)
(* Fetch: main step 1 (lines 131-137) and download_file (lines 55-63)      *)
(***************************************************************************)
MaxRuns == 2

MaxChunks == 2

NoFile == [present |-> FALSE, req |-> 0, len |-> 0]

NoResp == [status |-> "none", left |-> 0]

\* a file on disk: the request that wrote it and the chunks written so far
File(r, n) == [present |-> TRUE, req |-> r, len |-> n]

\* os.path.exists(dest), line 134
DestExistsNever(i) == FALSE

DestExists(i) == disk[i].present

FetchInit ==
    /\ fpc = "idle"
    /\ fi = 1
    /\ initiallyPresent \in [SourceIdx -> BOOLEAN]
    /\ disk = [i \in SourceIdx |->
                 IF initiallyPresent[i] THEN File(0, 1) ELSE NoFile]
    /\ resp = NoResp
    /\ requests = [i \in SourceIdx |-> 0]
    /\ fetchSteps = [i \in SourceIdx |-> 0]
    /\ firstStatus = [i \in SourceIdx |-> "none"]
    /\ runs = 0

\* python obtain_interaction_data.py: main() entered, the loop of line 132
StartMain ==
    /\ fpc \in {"idle", "aborted", "fetched"}
    /\ runs < MaxRuns
    /\ runs' = runs + 1
    /\ fi' = 1
    /\ fpc' = "loop"
    /\ resp' = NoResp
    /\ UNCHANGED <<disk, requests, fetchSteps, firstStatus, initiallyPresent>>
    /\ UNCHANGED notFetch

\* lines 134, 136-137: dest exists, skip
SkipDownload ==
    /\ fpc = "loop"
    /\ fi \in SourceIdx
    /\ DestExists(fi)
    /\ fetchSteps' = [fetchSteps EXCEPT ![fi] = @ + 1]
    /\ fi' = fi + 1
    /\ UNCHANGED <<fpc, disk, resp, requests, firstStatus, initiallyPresent, runs>>
    /\ UNCHANGED notFetch

\* lines 134-135, 57-58: dest absent, requests.get(url, stream=True)
CallDownload ==
    /\ fpc = "loop"
    /\ fi \in SourceIdx
    /\ ~DestExists(fi)
    /\ fetchSteps' = [fetchSteps EXCEPT ![fi] = @ + 1]
    /\ requests' = [requests EXCEPT ![fi] = @ + 1]
    /\ \E st \in {"ok", "http_error"}, n \in 1..MaxChunks :
          /\ resp' = [status |-> st, left |-> n]
          /\ firstStatus' = [firstStatus EXCEPT
                               ![fi] = IF @ = "none" THEN st ELSE @]
    /\ fpc' = "status"
    /\ UNCHANGED <<fi, disk, initiallyPresent, runs>>
    /\ UNCHANGED notFetch

\* line 59: resp.raise_for_status(); the HTTPError leaves main
RaiseForStatus ==
    /\ fpc = "status"
    /\ fpc' = IF resp.status = "ok" THEN "open" ELSE "aborted"
    /\ UNCHANGED <<fi, disk, resp, requests, fetchSteps, firstStatus,
                   initiallyPresent, runs>>
    /\ UNCHANGED notFetch

\* line 60: open(dest_path, "wb") creates the empty file
OpenDest ==
    /\ fpc = "open"
    /\ disk' = [disk EXCEPT ![fi] = File(requests[fi], 0)]
    /\ fpc' = "stream"
    /\ UNCHANGED <<fi, resp, requests, fetchSteps, firstStatus,
                   initiallyPresent, runs>>
    /\ UNCHANGED notFetch

\* lines 61-62: one chunk read from the response and written
WriteChunk ==
    /\ fpc = "stream"
    /\ resp.left > 0
    /\ disk' = [disk EXCEPT ![fi].len = @ + 1]
    /\ resp' = [resp EXCEPT !.left = @ - 1]
    /\ UNCHANGED <<fpc, fi, requests, fetchSteps, firstStatus,
                   initiallyPresent, runs>>
    /\ UNCHANGED notFetch

\* line 61: iter_content raises (connection lost); the with block closes the
\* file, nothing removes it, and the exception leaves main
StreamError ==
    /\ fpc = "stream"
    /\ resp.left > 0
    /\ fpc' = "aborted"
    /\ UNCHANGED <<fi, disk, resp, requests, fetchSteps, firstStatus,
                   initiallyPresent, runs>>
    /\ UNCHANGED notFetch

\* line 63: the body is exhausted, download_file returns, next source
FinishDownload ==
    /\ fpc = "stream"
    /\ resp.left = 0
    /\ resp' = NoResp
    /\ fi' = fi + 1
    /\ fpc' = "loop"
    /\ UNCHANGED <<disk, requests, fetchSteps, firstStatus, initiallyPresent, runs>>
    /\ UNCHANGED notFetch

\* line 132: the registry is exhausted
FetchDone ==
    /\ fpc = "loop"
    /\ fi > NumSources
    /\ fpc' = "fetched"
    /\ UNCHANGED <<fi, disk, resp, requests, fetchSteps, firstStatus,
                   initiallyPresent, runs>>
    /\ UNCHANGED notFetch

FetchNext ==
    \/ StartMain
    \/ SkipDownload
    \/ CallDownload
    \/ RaiseForStatus
    \/ OpenDest
    \/ WriteChunk
    \/ StreamError
    \/ FinishDownload
    \/ FetchDone


(***************************************************************************)
(* Tables (pandas DataFrames): a column list and a list of rows, each row  *)
(* a function from column name to cell. An identifier cell is a string,    *)
(* NA the missing one; a numeric cell is <<v>>, or <<>> when missing (NaN).*)
(***************************************************************************)
NA == "NaN"

Table(cols, rows) == [columns |-> cols, rows |-> rows]

EmptyTable == Table(<<>>, <<>>)

RECURSIVE SelectIdx(_, _, _)
\* the elements of s at the indices in I, from index k on, in order
SelectIdx(s, I, k) ==
    IF k > Len(s) THEN <<>>
    ELSE (IF k \in I THEN <<s[k]>> ELSE <<>>) \o SelectIdx(s, I, k + 1)

\* df[mask]: the rows whose index is in I, order kept
TakeRows(t, I) == Table(t.columns, SelectIdx(t.rows, I, 1))

Key(r) == <<r["source"], r["target"]>>

\* df.rename(columns={o1: 'source', o2: 'target'}), lines 94 and 97
RenameTo(t, o1, o2) ==
    LET new(c) == IF c = o1 THEN "source" ELSE IF c = o2 THEN "target" ELSE c
        cols   == [i \in 1..Len(t.columns) |-> new(t.columns[i])]
        old(c) == CHOOSE o \in Range(t.columns) : new(o) = c
    IN  Table(cols, [i \in 1..Len(t.rows) |->
                        [c \in Range(cols) |-> t.rows[i][old(c)]]])

\* lines 93-97: the named pair if both names are columns, else the first two
RenameColumns(t) ==
    IF "miRNA" \in Range(t.columns) /\ "target_gene" \in Range(t.columns)
    THEN RenameTo(t, "miRNA", "target_gene")
    ELSE RenameTo(t, t.columns[1], t.columns[2])

\* df[score_col] >= threshold, line 102: a comparison with NaN is False
ScoreAtLeastGT(cell, threshold) == cell # <<>> /\ cell[1] > threshold[1]

ScoreAtLeast(cell, threshold) == cell # <<>> /\ cell[1] >= threshold[1]

\* the condition of line 100
ScoreStepApplies(t, score_col, threshold) ==
    /\ score_col # None
    /\ threshold # <<>>
    /\ score_col \in Range(t.columns)

\* lines 100-103
FilterByScore(t, score_col, threshold) ==
    IF ScoreStepApplies(t, score_col, threshold)
    THEN TakeRows(t, {i \in 1..Len(t.rows) :
                         ScoreAtLeast(t.rows[i][score_col], threshold)})
    ELSE t

\* df.dropna(subset=['source', 'target']), line 106
DropNa(t) ==
    TakeRows(t, {i \in 1..Len(t.rows) :
                    t.rows[i]["source"] # NA /\ t.rows[i]["target"] # NA})

\* df.drop_duplicates(subset=['source', 'target']), lines 107 and 155:
\* keep='first'
DropDuplicatesAdjacent(t) ==
    TakeRows(t, {i \in 1..Len(t.rows) :
                    i = 1 \/ Key(t.rows[i - 1]) # Key(t.rows[i])})

DropDuplicatesKeepLast(t) ==
    TakeRows(t, {i \in 1..Len(t.rows) :
                    \A j \in (i + 1)..Len(t.rows) : Key(t.rows[j]) # Key(t.rows[i])})

DropDuplicates(t) ==
    TakeRows(t, {i \in 1..Len(t.rows) :
                    \A j \in 1..(i - 1) : Key(t.rows[j]) # Key(t.rows[i])})

\* line 109: source, target, then the other columns in their order
ReorderColumns(t) ==
    Table(<<"source", "target">> \o
            SelectSeq(t.columns, LAMBDA c : c \notin {"source", "target"}),
          t.rows)

\* load_and_filter as a whole, lines 90-109, on the parsed file
load_and_filter(raw, score_col, threshold) ==
    ReorderColumns(DropDuplicates(DropNa(
        FilterByScore(RenameColumns(raw), score_col, threshold))))

(***************************************************************************)
(* load_and_filter, statement by statement                                 *)
(***************************************************************************)
MaxRows == 2

ScoreValues == {0, 1}

IdCells == {"a", NA}

TargetCells == {"x", "y", NA}

ScoreCells == {<<>>} \cup {<<v>> : v \in ScoreValues}

\* the files read_csv may find: the recognised column pair or any other
\* first two columns, with the starBase score column
RawLayouts == { <<"miRNA", "target_gene", "clip_score">>,
                <<"geneA", "geneB", "clip_score">> }

RawRows(cols) ==
    {[c \in Range(cols) |-> IF c = cols[1] THEN s ELSE IF c = cols[2] THEN t ELSE v] :
        s \in IdCells, t \in TargetCells, v \in ScoreCells}

RawTables == UNION {{Table(cols, rows) : rows \in SeqsUpTo(RawRows(cols), MaxRows)} :
                      cols \in RawLayouts}

ScoreColArgs == {None, "clip_score", "lncbase_confidence"}

ThresholdArgs == {<<>>} \cup {<<v>> : v \in ScoreValues}

LoadIdle ==
    /\ lpc = "off"
    /\ lcfg = [score_col |-> None, threshold |-> <<>>]
    /\ ldf = EmptyTable
    /\ lprev = EmptyTable

LoadInit ==
    /\ lpc = "called"
    /\ lcfg \in [score_col : ScoreColArgs, threshold : ThresholdArgs]
    /\ ldf = EmptyTable
    /\ lprev = EmptyTable

\* line 90: pd.read_csv
ReadCsv ==
    /\ lpc = "called"
    /\ \E raw \in RawTables : ldf' = raw
    /\ lprev' = EmptyTable
    /\ lpc' = "read"
    /\ UNCHANGED lcfg
    /\ UNCHANGED notLoad

\* lines 93-97
LRename ==
    /\ lpc = "read"
    /\ lprev' = ldf
    /\ ldf' = RenameColumns(ldf)
    /\ lpc' = "renamed"
    /\ UNCHANGED lcfg
    /\ UNCHANGED notLoad

\* lines 100-103
LFilterByScore ==
    /\ lpc = "renamed"
    /\ lprev' = ldf
    /\ ldf' = FilterByScore(ldf, lcfg.score_col, lcfg.threshold)
    /\ lpc' = "scored"
    /\ UNCHANGED lcfg
    /\ UNCHANGED notLoad

\* line 106
LDropNa ==
    /\ lpc = "scored"
    /\ lprev' = ldf
    /\ ldf' = DropNa(ldf)
    /\ lpc' = "complete"
    /\ UNCHANGED lcfg
    /\ UNCHANGED notLoad

\* line 107
LDropDuplicates ==
    /\ lpc = "complete"
    /\ lprev' = ldf
    /\ ldf' = DropDuplicates(ldf)
    /\ lpc' = "unique"
    /\ UNCHANGED lcfg
    /\ UNCHANGED notLoad

\* line 109
LReturn ==
    /\ lpc = "unique"
    /\ lprev' = ldf
    /\ ldf' = ReorderColumns(ldf)
    /\ lpc' = "returned"
    /\ UNCHANGED lcfg
    /\ UNCHANGED notLoad

LoadNext ==
    \/ ReadCsv
    \/ LRename
    \/ LFilterByScore
    \/ LDropNa
    \/ LDropDuplicates
    \/ LReturn

(***************************************************************************)
(* harmonize_ids, lines 112-125                                            *)
(***************************************************************************)
\* dict(zip(mapping['raw_id'], mapping['official_symbol'])), line 121:
\* a raw_id listed twice keeps its last symbol
MappingDict(mapping) ==
    [k \in {mapping[i][1] : i \in 1..Len(mapping)} |->
        mapping[CHOOSE i \in 1..Len(mapping) :
                  /\ mapping[i][1] = k
                  /\ \A j \in (i + 1)..Len(mapping) : mapping[j][1] # k][2]]

\* Series.map(mapping_dict): a value that is no key becomes NaN
MapCell(d, v) == IF v \in DOMAIN d THEN d[v] ELSE NA

\* Series.fillna(df[col]): a NaN takes the original value
FillNa(mapped, orig) == IF mapped = NA THEN orig ELSE mapped

\* the right-hand side of lines 123 and 124 for one cell
HarmonizeCellNoFill(d, v) == MapCell(d, v)

HarmonizeCell(d, v) == FillNa(MapCell(d, v), v)

\* lines 120-125
harmonize_ids(t, mapping) ==
    LET d == MappingDict(mapping)
    IN  Table(t.columns,
              [i \in 1..Len(t.rows) |->
                 [c \in DOMAIN t.rows[i] |->
                    IF c \in {"source", "target"}
                    THEN HarmonizeCell(d, t.rows[i][c])
                    ELSE t.rows[i][c]]])

(***************************************************************************)
(* main, steps 2 and 3 (lines 139-156)                                     *)
(***************************************************************************)
\* df['source_db'] = name, line 150
TagSourceDb(t, name) ==
    Table(IF "source_db" \in Range(t.columns) THEN t.columns
          ELSE Append(t.columns, "source_db"),
          [i \in 1..Len(t.rows) |->
             [c \in DOMAIN t.rows[i] \cup {"source_db"} |->
                IF c = "source_db" THEN name ELSE t.rows[i][c]]])

RECURSIVE ConcatColumns(_)
\* the columns of pd.concat: the union, in order of first appearance
ConcatColumns(ts) ==
    IF ts = <<>> THEN <<>>
    ELSE LET before == ConcatColumns(SubSeq(ts, 1, Len(ts) - 1))
         IN  before \o SelectSeq(ts[Len(ts)].columns,
                                 LAMBDA c : c \notin Range(before))

RECURSIVE ConcatRows(_)
ConcatRows(ts) ==
    IF ts = <<>> THEN <<>> ELSE ts[1].rows \o ConcatRows(Tail(ts))

\* pd.concat(dfs, ignore_index=True), line 154: rows in list order, a column
\* a table lacks filled with NaN
Concat(ts) ==
    LET cols == ConcatColumns(ts)
        rows == ConcatRows(ts)
    IN  Table(cols, [i \in 1..Len(rows) |->
                       [c \in Range(cols) |->
                          IF c \in DOMAIN rows[i] THEN rows[i][c] ELSE NA]])

\* lines 154-155
MergeAll(ts) == DropDuplicates(Concat(ts))

MaxTotalRows == 3

MainSourceCells == {"a", "b", NA}

MainTargetCells == {"x", NA}

\* the raw files' layouts: the two identifier columns alone, or with the
\* starBase score column
MainLayouts == { <<"miRNA", "target_gene">>,
                 <<"miRNA", "target_gene", "clip_score">> }

\* rows of a file with a score column: clip_score in tenths, below and at
\* the starBase threshold
MainScoredRows ==
    { [miRNA |-> "a", target_gene |-> "x", clip_score |-> <<4>>],
      [miRNA |-> "a", target_gene |-> "x", clip_score |-> <<5>>],
      [miRNA |-> "b", target_gene |-> "x", clip_score |-> <<5>>] }

MainRawRows(cols) ==
    IF Len(cols) > 2 THEN MainScoredRows
    ELSE {[c \in Range(cols) |-> IF c = cols[1] THEN s ELSE t] :
             s \in MainSourceCells, t \in MainTargetCells}

MainRawTables(n) ==
    UNION {{Table(cols, rows) : rows \in SeqsUpTo(MainRawRows(cols), n)} :
             cols \in MainLayouts}

\* mapping files: empty; one entry; an entry whose official_symbol is empty;
\* a swap with a target's entry; a raw_id listed twice; three raw ids with
\* one official symbol
MappingFiles ==
    { <<>>,
      << <<"b", "a">> >>,
      << <<"a", NA>>, <<"b", "a">> >>,
      << <<"a", "b">>, <<"b", "a">>, <<"x", "y">> >>,
      << <<"b", "b">>, <<"b", "a">> >>,
      << <<"a", "S">>, <<"b", "S">>, <<"x", "S">> >> }

MainIdle ==
    /\ mpc = "off"
    /\ mi = 1
    /\ mapfile = <<>>
    /\ loaded = EmptyTable
    /\ df = EmptyTable
    /\ dfs = <<>>
    /\ merged = EmptyTable
    /\ rowsRead = 0

MainInit ==
    /\ mpc = "loop"
    /\ mi = 1
    /\ mapfile \in MappingFiles
    /\ loaded = EmptyTable
    /\ df = EmptyTable
    /\ dfs = <<>>
    /\ merged = EmptyTable
    /\ rowsRead = 0

\* lines 141-148: the next source's file is read and filtered
MLoadAndFilter ==
    /\ mpc = "loop"
    /\ mi \in SourceIdx
    /\ \E raw \in MainRawTables(MaxTotalRows - rowsRead) :
          /\ loaded' = load_and_filter(raw, INTERACTION_SOURCES[mi].score_col,
                                     INTERACTION_SOURCES[mi].threshold)
          /\ rowsRead' = rowsRead + Len(raw.rows)
    /\ df' = loaded'
    /\ mpc' = "loaded"
    /\ UNCHANGED <<mi, mapfile, dfs, merged>>
    /\ UNCHANGED notMain

\* line 149
MHarmonize ==
    /\ mpc = "loaded"
    /\ df' = harmonize_ids(df, mapfile)
    /\ mpc' = "harmonized"
    /\ UNCHANGED <<mi, mapfile, loaded, dfs, merged, rowsRead>>
    /\ UNCHANGED notMain

\* lines 150-151
MTagAppend ==
    /\ mpc = "harmonized"
    /\ df' = TagSourceDb(df, INTERACTION_SOURCES[mi].name)
    /\ dfs' = Append(dfs, df')
    /\ mi' = mi + 1
    /\ mpc' = "loop"
    /\ UNCHANGED <<mapfile, loaded, merged, rowsRead>>
    /\ UNCHANGED notMain

\* lines 154-155, after the last source
MMerge ==
    /\ mpc = "loop"
    /\ mi > NumSources
    /\ merged' = MergeAll(dfs)
    /\ mpc' = "merged"
    /\ UNCHANGED <<mi, mapfile, loaded, df, dfs, rowsRead>>
    /\ UNCHANGED notMain

MainNext ==
    \/ MLoadAndFilter
    \/ MHarmonize
    \/ MTagAppend
    \/ MMerge

(***************************************************************************)
(* data_integration.py: the global confidence filter                       *)
(***************************************************************************)
\* quantile(0.10): the quantile as a fraction
QuantileNum == 1

QuantileDen == 10

RECURSIVE InsertSorted(_, _)
InsertSorted(s, x) ==
    IF s = <<>> THEN <<x>>
    ELSE IF x <= s[1] THEN <<x>> \o s
    ELSE <<s[1]>> \o InsertSorted(Tail(s), x)

RECURSIVE SortAsc(_)
SortAsc(s) == IF s = <<>> THEN <<>> ELSE InsertSorted(SortAsc(Tail(s)), s[1])

\* the scores that are not NaN, in row order
PresentScores(t) ==
    LET cells == [i \in 1..Len(t) |-> t[i].confidence_score]
        kept  == SelectSeq(cells, LAMBDA c : c # <<>>)
    IN  [i \in 1..Len(kept) |-> kept[i][1]]

\* Series.quantile(q), interpolation 'lower': the order statistic below
QuantileLower(t) ==
    LET v == SortAsc(PresentScores(t))
        n == Len(v)
    IN  IF n = 0 THEN <<>>
        ELSE << QuantileDen * v[(((n - 1) * QuantileNum) \div QuantileDen) + 1] >>

\* Series.quantile(q), line 2: NaN skipped, then linear interpolation between
\* the order statistics around position (n-1)*q; the result in 1/QuantileDen
Quantile(t) ==
    LET v   == SortAsc(PresentScores(t))
        n   == Len(v)
        pos == (n - 1) * QuantileNum
        lo  == (pos \div QuantileDen) + 1
        rem == pos % QuantileDen
        hi  == IF lo < n THEN lo + 1 ELSE lo
    IN  IF n = 0 THEN <<>>
        ELSE << QuantileDen * v[lo] + rem * (v[hi] - v[lo]) >>

\* confidence_score >= global_threshold, line 3: False when either is NaN
AtLeastCutoff(cell, cutoff) ==
    cell # <<>> /\ cutoff # <<>> /\ QuantileDen * cell[1] >= cutoff[1]

\* line 3
FilterByCutoff(t, cutoff) ==
    SelectSeq(t, LAMBDA r : AtLeastCutoff(r.confidence_score, cutoff))

MaxEdges == 3

ConfidenceCells == {<<>>, <<0>>, <<1>>, <<3>>}

EdgeTable(cells) == [i \in 1..Len(cells) |-> [edge |-> i, confidence_score |-> cells[i]]]

\* tables long enough for the position (n-1)*q to reach and pass an integer
ExampleTables ==
    { EdgeTable([i \in 1..10 |-> <<i>>]),
      EdgeTable([i \in 1..11 |-> <<2 * i>>]),
      EdgeTable([i \in 1..12 |-> <<12 - i>>]) }

EdgeTables ==
    {EdgeTable(cells) : cells \in SeqsUpTo(ConfidenceCells, MaxEdges)} \cup ExampleTables

QuantIdle ==
    /\ qpc = "off"
    /\ merged_interactions = <<>>
    /\ global_threshold = <<>>
    /\ final_df = <<>>

QuantInit ==
    /\ qpc = "start"
    /\ merged_interactions \in EdgeTables
    /\ global_threshold = <<>>
    /\ final_df = <<>>

\* line 2
ComputeThreshold ==
    /\ qpc = "start"
    /\ global_threshold' = Quantile(merged_interactions)
    /\ qpc' = "cutoff"
    /\ UNCHANGED <<merged_interactions, final_df>>
    /\ UNCHANGED notQuant

\* line 3
FilterFinal ==
    /\ qpc = "cutoff"
    /\ final_df' = FilterByCutoff(merged_interactions, global_threshold)
    /\ qpc' = "filtered"
    /\ UNCHANGED <<merged_interactions, global_threshold>>
    /\ UNCHANGED notQuant

\* line 6
SaveFinal ==
    /\ qpc = "filtered"
    /\ qpc' = "saved"
    /\ UNCHANGED <<merged_interactions, global_threshold, final_df>>
    /\ UNCHANGED notQuant

QuantNext ==
    \/ ComputeThreshold
    \/ FilterFinal
    \/ SaveFinal

(***************************************************************************)
(* preprocessing.py: filter_expression, lines 39-56                        *)
(* The matrix is a list of rows [gene, values]; its index is the list of   *)
(* genes.                                                                  *)
(***************************************************************************)
\* the order of the index labels (string comparison)
GeneOrder == <<"A", "B", "C", "D">>

Genes == Range(GeneOrder)

Rank(g) == CHOOSE i \in 1..Len(GeneOrder) : GeneOrder[i] = g

IsMonotonicIncreasing(idx) ==
    \A i \in 1..(Len(idx) - 1) : Rank(idx[i]) <= Rank(idx[i + 1])

IndexOf(m) == [i \in 1..Len(m) |-> m[i].gene]

\* Index.intersection the other way round: the labels in the order of other
IndexIntersectionOtherOrder(idx, other) ==
    SelectSeq(other, LAMBDA g : g \in Range(idx))

\* expr.index.intersection(network_genes), line 47, other the Index made of
\* the set: the index itself when the two are equal; the sorted merge when
\* both are increasing; else the labels of the index that other has, in the
\* order of the index
IndexIntersection(idx, other) ==
    IF idx = other THEN idx
    ELSE IF IsMonotonicIncreasing(idx) /\ IsMonotonicIncreasing(other)
    THEN SelectSeq(GeneOrder, LAMBDA g : g \in Range(idx) /\ g \in Range(other))
    ELSE SelectSeq(idx, LAMBDA g : g \in Range(other))

\* expr.loc[labels], line 47: the rows of the labels, in the labels' order
LocLabels(m, labels) ==
    [k \in 1..Len(labels) |-> m[CHOOSE i \in 1..Len(m) : m[i].gene = labels[k]]]

RECURSIVE SumSeq(_)
SumSeq(v) == IF v = <<>> THEN 0 ELSE v[1] + SumSeq(Tail(v))

\* expr.sum(axis=1) > 0, line 51
NonzeroMask(m) == {i \in 1..Len(m) : SumSeq(m[i].values) > 0}

\* expr.loc[nonzero], line 52
LocMask(m, mask) == SelectIdx(m, mask, 1)

MaxGenes == 3

\* rows of two cells: all zero, positive, cancelling, negative
ExprValues == { <<0, 0>>, <<1, 0>>, <<1, -1>>, <<-1, 0>> }

Perms(S) == {p \in [1..Cardinality(S) -> S] : \A i, j \in DOMAIN p : i # j => p[i] # p[j]}

\* matrices with unique row keys
Matrices ==
    {m \in SeqsUpTo([gene : Genes, values : ExprValues], MaxGenes) :
        \A i, j \in 1..Len(m) : i # j => m[i].gene # m[j].gene}

ExprIdle ==
    /\ epc = "off"
    /\ network_genes = {}
    /\ netIndex = <<>>
    /\ expr0 = <<>>
    /\ inNetwork = <<>>
    /\ expr = <<>>

ExprInit ==
    /\ epc = "called"
    /\ network_genes \in SUBSET Genes
    /\ netIndex = <<>>
    /\ expr0 \in Matrices
    /\ inNetwork = <<>>
    /\ expr = expr0

\* lines 46-48
IntersectNetwork ==
    /\ epc = "called"
    /\ \E other \in Perms(network_genes) :
          /\ netIndex' = other
          /\ expr' = LocLabels(expr, IndexIntersection(IndexOf(expr), other))
    /\ inNetwork' = expr'
    /\ epc' = "in_network"
    /\ UNCHANGED <<network_genes, expr0>>
    /\ UNCHANGED notExpr

\* lines 51-56
RemoveZero ==
    /\ epc = "in_network"
    /\ expr' = LocMask(expr, NonzeroMask(expr))
    /\ epc' = "returned"
    /\ UNCHANGED <<network_genes, netIndex, expr0, inNetwork>>
    /\ UNCHANGED notExpr

ExprNext ==
    \/ IntersectNetwork
    \/ RemoveZero

(***************************************************************************)
(* Specifications                                                          *)
(***************************************************************************)
FetchIdle ==
    /\ fpc = "off"
    /\ fi = 1
    /\ initiallyPresent = [i \in SourceIdx |-> FALSE]
    /\ disk = [i \in SourceIdx |-> NoFile]
    /\ resp = NoResp
    /\ requests = [i \in SourceIdx |-> 0]
    /\ fetchSteps = [i \in SourceIdx |-> 0]
    /\ firstStatus = [i \in SourceIdx |-> "none"]
    /\ runs = 0

InitFetch == FetchInit /\ LoadIdle /\ MainIdle /\ QuantIdle /\ ExprIdle

SpecFetch == InitFetch /\ [][FetchNext]_vars

InitLoad == LoadInit /\ FetchIdle /\ MainIdle /\ QuantIdle /\ ExprIdle

SpecLoad == InitLoad /\ [][LoadNext]_vars

InitMain == MainInit /\ FetchIdle /\ LoadIdle /\ QuantIdle /\ ExprIdle

SpecMain == InitMain /\ [][MainNext]_vars

InitQuant == QuantInit /\ FetchIdle /\ LoadIdle /\ MainIdle /\ ExprIdle

SpecQuant == InitQuant /\ [][QuantNext]_vars

InitExpr == ExprInit /\ FetchIdle /\ LoadIdle /\ MainIdle /\ QuantIdle

SpecExpr == InitExpr /\ [][ExprNext]_vars

(***************************************************************************)
(* Properties                                                              *)
(***************************************************************************)
UniquePairs(t) ==
    \A i, j \in 1..Len(t.rows) : i # j => Key(t.rows[i]) # Key(t.rows[j])

NoMissingId(t) ==
    \A i \in 1..Len(t.rows) : t.rows[i]["source"] # NA /\ t.rows[i]["target"] # NA

Keys(t) == {Key(t.rows[i]) : i \in 1..Len(t.rows)}

Count(t, r) == Cardinality({i \in 1..Len(t.rows) : t.rows[i] = r})

\* C1: what load_and_filter returns has no two rows with the same
\* (source, target) pair and no row with a missing source or target, and
\* the merged table of main has no two rows with the same pair.
C1_DedupInvariant ==
    /\ UniquePairs(loaded) /\ NoMissingId(loaded)
    /\ mpc = "merged" => UniquePairs(merged)

\* load_and_filter dropped rows of some file and the merge dropped rows of
\* the concatenation
C1_Witness ==
    /\ mpc = "merged"
    /\ Len(ConcatRows(dfs)) < rowsRead
    /\ Len(merged.rows) < Len(ConcatRows(dfs))
    /\ Len(merged.rows) >= 1

\* C2 as stated: the fetch step run twice for a descriptor whose destination
\* was absent has issued exactly one HTTP request.
C2_TwoFetchStepsOneDownload ==
    \A i \in SourceIdx :
        (~initiallyPresent[i] /\ fetchSteps[i] = 2) => requests[i] = 1

\* C2 amended: a request is issued only in a state where the destination is
\* absent; a fetch step that finds the destination present issues no request
\* and leaves the file as it is; and two or more fetch steps for a descriptor
\* whose destination was absent issue exactly one request when the first
\* response had a success status.
C2_DownloadOnlyWhenAbsent ==
    /\ [][\A i \in SourceIdx :
            /\ requests'[i] > requests[i] => ~disk[i].present
            /\ (fetchSteps'[i] > fetchSteps[i] /\ disk[i].present)
                  => (requests'[i] = requests[i] /\ disk'[i] = disk[i])]_vars
    /\ [](\A i \in SourceIdx :
            (~initiallyPresent[i] /\ fetchSteps[i] >= 2 /\ firstStatus[i] = "ok")
               => requests[i] = 1)

\* the second run has skipped a file the first run downloaded in full
C2_Witness ==
    \E i \in SourceIdx :
        /\ ~initiallyPresent[i]
        /\ fetchSteps[i] = 2
        /\ requests[i] = 1
        /\ disk[i].present /\ disk[i].req = 1
        /\ runs = 2 /\ fpc = "fetched"

\* C9: when download_file ends in an error, the destination path does
\* not exist.
C9_FailedDownloadLeavesNoFile ==
    fpc = "aborted" => ~disk[fi].present

\* the entry of the mapping file that counts for v: its last one
LastEntry(v) ==
    CHOOSE k \in 1..Len(mapfile) :
        /\ mapfile[k][1] = v
        /\ \A j \in 1..Len(mapfile) : j > k => mapfile[j][1] # v

\* the identifiers the file maps: those whose entry has an official symbol
FileKeys ==
    {mapfile[k][1] : k \in {j \in 1..Len(mapfile) : mapfile[LastEntry(mapfile[j][1])][2] # NA}}

\* the official symbol of v, v itself when the file maps no symbol to v
FileSymbol(v) == IF v \in FileKeys THEN mapfile[LastEntry(v)][2] ELSE v

\* C3: for every pair of the per-source tables the merged table holds
\* exactly one row, tagged with the earliest declared source whose table
\* has the pair, and the merged rows are in the order in which their pairs
\* first appear in the concatenation.
C3_FirstSourceWins ==
    mpc = "merged" =>
        LET all == ConcatRows(dfs)
            FirstPos(p) == CHOOSE i \in 1..Len(all) :
                              /\ Key(all[i]) = p
                              /\ \A j \in 1..(i - 1) : Key(all[j]) # p
            FirstSrc(p) == CHOOSE k \in 1..Len(dfs) :
                              /\ p \in Keys(dfs[k])
                              /\ \A j \in 1..(k - 1) : p \notin Keys(dfs[j])
        IN  /\ Keys(merged) = {Key(all[i]) : i \in 1..Len(all)}
            /\ UniquePairs(merged)
            /\ \A i \in 1..Len(merged.rows) :
                  /\ merged.rows[i]["source_db"] =
                        INTERACTION_SOURCES[FirstSrc(Key(merged.rows[i]))].name
                  /\ LET first == all[FirstPos(Key(merged.rows[i]))]
                     IN  \A c \in DOMAIN merged.rows[i] :
                            merged.rows[i][c] = IF c \in DOMAIN first THEN first[c] ELSE NA
            /\ \A i, j \in 1..Len(merged.rows) :
                  i < j => FirstPos(Key(merged.rows[i])) < FirstPos(Key(merged.rows[j]))

\* a pair that two sources have, and another pair after it
C3_Witness ==
    /\ mpc = "merged"
    /\ \E k, l \in 1..Len(dfs) : k < l /\ Keys(dfs[k]) \cap Keys(dfs[l]) # {}
    /\ Len(merged.rows) >= 2

\* C6 as stated: when the score step applies it removes a row if and only
\* if the row's score is strictly less than threshold; otherwise it removes
\* nothing.
C6_RemovedIffBelowThreshold ==
    lpc = "scored" =>
        IF /\ lcfg.score_col # None
           /\ lcfg.threshold # <<>>
           /\ lcfg.score_col \in Range(lprev.columns)
        THEN \A r \in Range(lprev.rows) :
                Count(ldf, r) =
                   IF r[lcfg.score_col] # <<>> /\ r[lcfg.score_col][1] < lcfg.threshold[1]
                   THEN 0 ELSE Count(lprev, r)
        ELSE ldf = lprev

\* C6 amended: when the score step applies it keeps a row if and only if the
\* row's score is present and at least threshold, so it removes the rows
\* below threshold and the rows whose score is missing; when threshold
\* is None, score_col is None or the column is absent it removes nothing.
C6_KeptIffScoreAtLeastThreshold ==
    lpc = "scored" =>
        IF /\ lcfg.score_col # None
           /\ lcfg.threshold # <<>>
           /\ lcfg.score_col \in Range(lprev.columns)
        THEN /\ Range(ldf.rows) \subseteq Range(lprev.rows)
             /\ \A r \in Range(lprev.rows) :
                   Count(ldf, r) =
                      IF r[lcfg.score_col] # <<>> /\ r[lcfg.score_col][1] >= lcfg.threshold[1]
                      THEN Count(lprev, r) ELSE 0
        ELSE ldf = lprev

\* the step applied, removed a row with a missing score and kept a row whose
\* score equals threshold
C6_Witness ==
    /\ lpc = "scored"
    /\ lcfg.score_col \in Range(lprev.columns)
    /\ lcfg.threshold # <<>>
    /\ \E r \in Range(lprev.rows) : r[lcfg.score_col] = <<>> /\ Count(ldf, r) = 0
    /\ \E r \in Range(ldf.rows) : r[lcfg.score_col] = lcfg.threshold

\* C7: harmonize_ids returns as many rows as it got, in the same order;
\* a source or target that is a key of the map is replaced by its official
\* symbol, any other is unchanged, and none becomes missing.
C7_HarmonizeTotalRowwise ==
    mpc = "harmonized" =>
        /\ Len(df.rows) = Len(loaded.rows)
        /\ df.columns = loaded.columns
        /\ \A i \in 1..Len(loaded.rows) : \A c \in {"source", "target"} :
              /\ df.rows[i][c] = FileSymbol(loaded.rows[i][c])
              /\ loaded.rows[i][c] \notin FileKeys => df.rows[i][c] = loaded.rows[i][c]
              /\ df.rows[i][c] # NA

\* a row with one identifier rewritten and the other passed through
C7_Witness ==
    /\ mpc = "harmonized"
    /\ \E i \in 1..Len(loaded.rows) :
          /\ loaded.rows[i]["source"] \in FileKeys
          /\ df.rows[i]["source"] # loaded.rows[i]["source"]
          /\ loaded.rows[i]["target"] \notin FileKeys
    /\ Len(df.rows) >= 2

\* C10 as stated: the table harmonize_ids returns has no two rows with
\* the same (source, target) pair.
C10_HarmonizedPairsUnique ==
    mpc = "harmonized" => UniquePairs(df)

IdsOf(t) == UNION {{t.rows[i]["source"], t.rows[i]["target"]} : i \in 1..Len(t.rows)}

SymbolsDistinctOn(S) == \A u, v \in S : u # v => FileSymbol(u) # FileSymbol(v)

\* C10 amended: the table harmonize_ids returns has no two rows with the
\* same pair whenever the map, extended by the identity on the identifiers
\* it lacks, gives distinct identifiers of the table distinct symbols.
C10_UniqueUnderInjectiveMap ==
    (mpc = "harmonized" /\ SymbolsDistinctOn(IdsOf(loaded))) => UniquePairs(df)

\* two rows, rewritten by a map that keeps their identifiers apart
C10_Witness ==
    /\ mpc = "harmonized"
    /\ SymbolsDistinctOn(IdsOf(loaded))
    /\ Len(df.rows) >= 2
    /\ df # loaded

PosIn(idx, g) == CHOOSE i \in 1..Len(idx) : idx[i] = g

\* C4: the rows left by the first step of filter_expression are exactly
\* the matrix rows whose key is in network_genes, unchanged and in the
\* matrix's order; rows A, B, C with network genes {B, C, D} give B then C.
C4_InNetworkRowsInMatrixOrder ==
    epc \in {"in_network", "returned"} =>
        LET g0 == IndexOf(expr0)
            g1 == IndexOf(inNetwork)
        IN  /\ Range(g1) = Range(g0) \cap network_genes
            /\ Len(g1) = Cardinality(Range(g1))
            /\ \A i, j \in 1..Len(g1) :
                  i < j => PosIn(g0, g1[i]) < PosIn(g0, g1[j])
            /\ \A i \in 1..Len(inNetwork) : inNetwork[i] = expr0[PosIn(g0, g1[i])]
            /\ (g0 = <<"A", "B", "C">> /\ network_genes = {"B", "C", "D"})
                  => g1 = <<"B", "C">>

\* a matrix that is not sorted, a network index in another order, a row
\* outside the network and two rows inside it
C4_Witness ==
    /\ epc = "in_network"
    /\ Len(inNetwork) >= 2
    /\ Len(inNetwork) < Len(expr0)
    /\ ~IsMonotonicIncreasing(IndexOf(inNetwork))
    /\ PosIn(netIndex, inNetwork[1].gene) > PosIn(netIndex, inNetwork[2].gene)

\* C5: among the rows whose gene is in the network, the second step drops
\* a row if and only if its values sum to exactly zero.
C5_DroppedIffSumZero ==
    epc = "returned" =>
        \A i \in 1..Len(inNetwork) :
            (inNetwork[i] \notin Range(expr)) <=> (SumSeq(inNetwork[i].values) = 0)

\* the k-th smallest of the values of v, by counting
OrderStat(v, k) ==
    CHOOSE x \in Range(v) :
        /\ Cardinality({i \in 1..Len(v) : v[i] < x}) < k
        /\ k <= Cardinality({i \in 1..Len(v) : v[i] <= x})

\* C8: the cutoff is the 0.10 quantile of the scores by linear
\* interpolation between the order statistics around position (n-1)*0.10;
\* the rows kept are exactly those whose score is at least the cutoff, in
\* their order; for scores 1..10 the cutoff is 1.9, the row with score 1 is
\* dropped and the other nine are kept.
C8_QuantileCutoff ==
    qpc \in {"filtered", "saved"} =>
        LET v   == PresentScores(merged_interactions)
            n   == Len(v)
            pos == (n - 1) * QuantileNum
            k   == (pos \div QuantileDen) + 1
            a   == OrderStat(v, k)
            b   == OrderStat(v, IF k < n THEN k + 1 ELSE k)
        IN  /\ n = 0 => (global_threshold = <<>> /\ final_df = <<>>)
            /\ n > 0 => global_threshold =
                           << QuantileDen * a + (pos % QuantileDen) * (b - a) >>
            /\ \A r \in Range(merged_interactions) :
                  r \in Range(final_df) <=>
                     /\ r.confidence_score # <<>>
                     /\ global_threshold # <<>>
                     /\ QuantileDen * r.confidence_score[1] >= global_threshold[1]
            /\ Range(final_df) \subseteq Range(merged_interactions)
            /\ \A i, j \in 1..Len(final_df) : i < j => final_df[i].edge < final_df[j].edge
            /\ merged_interactions = EdgeTable([i \in 1..10 |-> <<i>>])
                  => /\ global_threshold = <<19>>
                     /\ Len(final_df) = 9
                     /\ \A i \in 1..9 : final_df[i].confidence_score = <<i + 1>>

\* scores 1..10 filtered
C8_Witness ==
    /\ qpc = "filtered"
    /\ merged_interactions = EdgeTable([i \in 1..10 |-> <<i>>])
    /\ Len(final_df) = 9

=============================================================================
